---- MODULE Spec2Model ----
(***************************************************************************)
(* Model of alembic/autogenerate.py: the comparison of a declared schema   *)
(* (MetaData) with the schema reflected from a database, the diff list it  *)
(* produces, and the rendering of that list into upgrade and downgrade     *)
(* command sequences.                                                      *)
(*                                                                         *)
(* Python values are encoded as follows.  None is the string "None";       *)
(* booleans are the strings "True" and "False"; a type object is the       *)
(* string of its class name; a string that the code takes apart (a diff    *)
(* tag, a server default) is the sequence of its tokens; a server default  *)
(* that is None is the one-token sequence NoDefault.  A dict is a function *)
(* on the set of its keys, so "key in dict" is "key \in DOMAIN dict".      *)
(***************************************************************************)
EXTENDS Naturals, Sequences, FiniteSets, TLC

VARIABLES
    metadata,                \* opts['target_metadata']: [tables |-> name -> Table]
    inspector,               \* what the Inspector reports: name -> (column name -> record)
    compare_type,            \* context.compare_type, by column name
    compare_server_default,  \* context.compare_server_default, by column name
    diffs,                   \* the diff list of the latest produce_migration_diffs
    template_args,           \* its rendered upgrade and downgrade command sequences
    previous,                \* diffs and template_args of the run before the latest
    runs,                    \* produce_migration_diffs calls so far; two are modelled
    call                     \* the latest direct _invoke_command call and its outcome

vars == <<metadata, inspector, compare_type, compare_server_default,
          diffs, template_args, previous, runs, call>>

----------------------------------------------------------------------------
(* Bounds *)

MaxTables == 3

MaxCols == 2

\* produce_migration_diffs calls in one behaviour
MaxRuns == 2

----------------------------------------------------------------------------
(* Value domains *)

None == "None"

NoDefault == <<"None">>

QUOTE == "'"

\* Table and column names, each pool in ascending string order.
TableNamePool == <<"alembic_version", "orders", "users", "zones", "zz_audit">>

ColNamePool == <<"amount", "id", "name", "zip">>

TableNames == {TableNamePool[i] : i \in 1..MaxTables}

ColNames == {ColNamePool[i] : i \in 1..MaxCols}

Types == {"Integer", "String", "NullType"}

NullableFlags == {"True", "False", None}

\* an unquoted expression, a quoted literal, no default
ServerDefaults == {NoDefault, <<"5">>, <<QUOTE, "a", QUOTE>>}

\* target_metadata when the environment script provides none
NoMetaData == [provided |-> "None"]

MetaDataIsNone(md) == "tables" \notin DOMAIN md

\* a dict as the function with the given keys; Merge(a, b) is a.update(b)
Merge(a, b) == [k \in DOMAIN a \cup DOMAIN b |-> IF k \in DOMAIN b THEN b[k] ELSE a[k]]

Pop(d, key) == [k \in DOMAIN d \ {key} |-> d[k]]

SetDefault(d, key, value) == IF key \in DOMAIN d THEN d ELSE Merge(d, (key :> value))

\* Every order in which a set of names can be iterated.  Python leaves the
\* iteration order of a set unspecified (it depends on the hashes of the
\* elements and on how the set was built), so a loop over a set takes any order.
Perms(S) == {p \in [1..Cardinality(S) -> S] : \A i, j \in DOMAIN p : p[i] = p[j] => i = j}

\* iteration of the set S when the hash order of all names is `order`
Iterate(S, order) == SelectSeq(order, LAMBDA n : n \in S)

\* sorted(S) for a set of table names
Sorted(S) == SelectSeq(TableNamePool, LAMBDA n : n \in S)

RECURSIVE Flatten(_)
Flatten(seqs) == IF seqs = <<>> THEN <<>> ELSE Head(seqs) \o Flatten(Tail(seqs))

----------------------------------------------------------------------------
(* Diff tags: the string "add_table" is its tokens, "_" being the separator *)

Tag(verb, kind) == <<verb, "_", kind>>

\* str.split("_")
RECURSIVE Split(_)
Split(s) ==
    IF s = <<>> THEN <<>>
    ELSE IF Head(s) = "_" THEN Split(Tail(s))
    ELSE <<Head(s)>> \o Split(Tail(s))

PyTuple(v) == [py |-> "tuple", v |-> v]

PyList(v) == [py |-> "list", v |-> v]

\* sqltypes: the _type_affinity of a type
TypeAffinity(t) == t

\* schema.Column(name, type, nullable=..., server_default=...)
Column(name, type, nullable, server_default) ==
    [name |-> name, type |-> type, nullable |-> nullable, server_default |-> server_default]

\* schema.Table(tname, removal_metadata) followed by inspector.reflecttable
ReflectTable(insp, tname) ==
    [name |-> tname,
     c |-> [cn \in DOMAIN insp[tname] |->
              Column(cn, insp[tname][cn].type, insp[tname][cn].nullable,
                     insp[tname][cn].default)]]

----------------------------------------------------------------------------
(* element comparison: each comparator returns what it appends to its list *)

_repr_type(prefix, type_) == <<prefix, type_>>

\* re.sub(r"^'|'$", "", default)
StripQuotes(s) ==
    LET s1 == IF s # <<>> /\ Head(s) = QUOTE THEN Tail(s) ELSE s
    IN  IF s1 # <<>> /\ s1[Len(s1)] = QUOTE THEN SubSeq(s1, 1, Len(s1) - 1) ELSE s1

_render_server_default(default) ==
    IF default = NoDefault THEN NoDefault
    ELSE <<QUOTE>> \o StripQuotes(default) \o <<QUOTE>>

_compare_nullable(tname, cname, conn_col, metadata_col_nullable) ==
    LET conn_col_nullable == conn_col.nullable
    IN  IF conn_col_nullable # metadata_col_nullable
        THEN << PyTuple(<< Tag("modify", "nullable"), tname, cname,
                           ("existing_type" :> conn_col.type)
                             @@ ("existing_server_default" :> conn_col.default),
                           conn_col_nullable,
                           metadata_col_nullable >>) >>
        ELSE <<>>

\* the comparator without the check of the declared type's affinity
CompareTypeChecksConnOnly(tname, cname, conn_col, metadata_col, autogen_context) ==
    LET conn_type == conn_col.type
        metadata_type == metadata_col.type
        isdiff == autogen_context.compare_type[cname]
    IN  IF TypeAffinity(conn_type) = "NullType" THEN <<>>
        ELSE IF isdiff
        THEN << PyTuple(<< Tag("modify", "type"), tname, cname,
                           ("existing_nullable" :> conn_col.nullable)
                             @@ ("existing_server_default" :> conn_col.default),
                           conn_type,
                           metadata_type >>) >>
        ELSE <<>>

_compare_type(tname, cname, conn_col, metadata_col, autogen_context) ==
    LET conn_type == conn_col.type
        metadata_type == metadata_col.type
        isdiff == autogen_context.compare_type[cname]
    IN  IF TypeAffinity(conn_type) = "NullType" THEN <<>>
        ELSE IF TypeAffinity(metadata_type) = "NullType" THEN <<>>
        ELSE IF isdiff
        THEN << PyTuple(<< Tag("modify", "type"), tname, cname,
                           ("existing_nullable" :> conn_col.nullable)
                             @@ ("existing_server_default" :> conn_col.default),
                           conn_type,
                           metadata_type >>) >>
        ELSE <<>>

_compare_server_default(tname, cname, conn_col, metadata_col, autogen_context) ==
    LET metadata_default == metadata_col.server_default
        conn_col_default == conn_col.default
        isdiff == autogen_context.compare_server_default[cname]
    IN  IF conn_col_default = NoDefault /\ metadata_default = NoDefault THEN <<>>
        ELSE IF isdiff
        THEN << PyTuple(<< Tag("modify", "default"), tname, cname,
                           ("existing_nullable" :> conn_col.nullable)
                             @@ ("existing_type" :> conn_col.type),
                           conn_col_default,
                           metadata_default >>) >>
        ELSE <<>>

\* the body of the loop over the columns present on both sides
CompareColumn(tname, colname, conn_table, metadata_table, autogen_context) ==
    LET metadata_col == metadata_table.c[colname]
        conn_col == conn_table[colname]
        col_diff == _compare_type(tname, colname, conn_col, metadata_col, autogen_context)
                    \o _compare_nullable(tname, colname, conn_col, metadata_col.nullable)
                    \o _compare_server_default(tname, colname, conn_col, metadata_col,
                                               autogen_context)
    IN  IF col_diff # <<>> THEN << PyList(col_diff) >> ELSE <<>>

\* column_order: the order in which this run's sets of column names iterate
_compare_columns(tname, conn_table, metadata_table, autogen_context, column_order) ==
    LET metadata_cols_by_name == metadata_table.c
        conn_col_names == DOMAIN conn_table
        metadata_col_names == DOMAIN metadata_cols_by_name
        added == Iterate(metadata_col_names \ conn_col_names, column_order)
        removed == Iterate(conn_col_names \ metadata_col_names, column_order)
        both == Iterate(metadata_col_names \cap conn_col_names, column_order)
    IN  [i \in 1..Len(added) |->
            PyTuple(<< Tag("add", "column"), tname, metadata_cols_by_name[added[i]] >>)]
        \o
        [i \in 1..Len(removed) |->
            PyTuple(<< Tag("remove", "column"), tname,
                       Column(removed[i],
                              conn_table[removed[i]].type,
                              conn_table[removed[i]].nullable,
                              conn_table[removed[i]].default) >>)]
        \o
        Flatten([i \in 1..Len(both) |->
            CompareColumn(tname, both[i], conn_table, metadata_table, autogen_context)])

----------------------------------------------------------------------------
(* walk structures *)

\* table_order: the order in which this run's sets of table names iterate
_compare_tables(conn_table_names, metadata_table_names, insp, md, autogen_context, table_order, column_order) ==
    LET added == Iterate(metadata_table_names \ conn_table_names, table_order)
        removed == Iterate(conn_table_names \ metadata_table_names, table_order)
        existing_tables == Sorted(conn_table_names \cap metadata_table_names)
    IN  [i \in 1..Len(added) |-> PyTuple(<< Tag("add", "table"), md.tables[added[i]] >>)]
        \o
        [i \in 1..Len(removed) |->
            PyTuple(<< Tag("remove", "table"), ReflectTable(insp, removed[i]) >>)]
        \o
        Flatten([i \in 1..Len(existing_tables) |->
            _compare_columns(existing_tables[i],
                             insp[existing_tables[i]],
                             md.tables[existing_tables[i]],
                             autogen_context, column_order)])

\* the walk with the version table left among the reflected names
NetChangesKeepVersionTable(insp, md, autogen_context, table_order, column_order) ==
    _compare_tables(DOMAIN insp, DOMAIN md.tables, insp, md,
                    autogen_context, table_order, column_order)

_produce_net_changes(insp, md, autogen_context, table_order, column_order) ==
    LET conn_table_names == (DOMAIN insp) \ {"alembic_version"}
        metadata_table_names == DOMAIN md.tables
    IN  _compare_tables(conn_table_names, metadata_table_names, insp, md,
                        autogen_context, table_order, column_order)

----------------------------------------------------------------------------
(* render python: a rendered call is the record of its name and arguments *)

Raise(exc) == [op |-> "raise", exc |-> exc]

\* prefix or ''
_sqlalchemy_autogenerate_prefix(autogen_context) ==
    IF autogen_context.opts.sqlalchemy_module_prefix = None THEN ""
    ELSE autogen_context.opts.sqlalchemy_module_prefix

_alembic_autogenerate_prefix(autogen_context) ==
    IF autogen_context.opts.alembic_module_prefix = None THEN ""
    ELSE autogen_context.opts.alembic_module_prefix

_render_column(column, autogen_context) ==
    LET opts == (IF column.server_default # NoDefault
                 THEN ("server_default" :> _render_server_default(column.server_default))
                 ELSE <<>>)
                @@
                (IF column.nullable # None
                 THEN ("nullable" :> column.nullable)
                 ELSE <<>>)
    IN  [name |-> column.name,
         type |-> _repr_type(_sqlalchemy_autogenerate_prefix(autogen_context), column.type),
         kw |-> opts]

_add_table(table, autogen_context) ==
    [op |-> "create_table",
     prefix |-> _alembic_autogenerate_prefix(autogen_context),
     tablename |-> table.name,
     args |-> [cn \in DOMAIN table.c |-> _render_column(table.c[cn], autogen_context)]]

_drop_table(table, autogen_context) ==
    [op |-> "drop_table",
     prefix |-> _alembic_autogenerate_prefix(autogen_context),
     tname |-> table.name]

_add_column(tname, column, autogen_context) ==
    [op |-> "add_column",
     prefix |-> _alembic_autogenerate_prefix(autogen_context),
     tname |-> tname,
     column |-> _render_column(column, autogen_context)]

_drop_column(tname, column, autogen_context) ==
    [op |-> "drop_column",
     prefix |-> _alembic_autogenerate_prefix(autogen_context),
     tname |-> tname,
     cname |-> column.name]

\* kw: the keyword arguments passed; a parameter left out keeps its default
\* (False for the two defaults, None for the rest).  fields: what is written.
_modify_col(tname, cname, autogen_context, kw) ==
    LET sqla_prefix == _sqlalchemy_autogenerate_prefix(autogen_context)
        Given(k) == k \in DOMAIN kw
        existing_type == IF Given("existing_type") THEN kw["existing_type"] ELSE None
    IN  [op |-> "alter_column",
         prefix |-> _alembic_autogenerate_prefix(autogen_context),
         tname |-> tname,
         cname |-> cname,
         fields |->
            ("existing_type" :> _repr_type(sqla_prefix, existing_type))
            @@ (IF Given("server_default")
                THEN ("server_default" :> _render_server_default(kw["server_default"]))
                ELSE <<>>)
            @@ (IF Given("type_") /\ kw["type_"] # None
                THEN ("type_" :> _repr_type(sqla_prefix, kw["type_"]))
                ELSE <<>>)
            @@ (IF Given("nullable") /\ kw["nullable"] # None
                THEN ("nullable" :> kw["nullable"])
                ELSE <<>>)
            @@ (IF Given("existing_nullable") /\ kw["existing_nullable"] # None
                THEN ("existing_nullable" :> kw["existing_nullable"])
                ELSE <<>>)
            @@ (IF Given("existing_server_default")
                   /\ kw["existing_server_default"] # NoDefault
                   /\ kw["existing_server_default"] # <<>>
                THEN ("existing_server_default" :>
                        _render_server_default(kw["existing_server_default"]))
                ELSE <<>>)]

----------------------------------------------------------------------------
(* produce command structure *)

\* the rule with the downgrade of a remove_* diff forgotten
AdddropForgetsDowngrade(updown, args, autogen_context) ==
    LET parts == Split(args[1])
        adddrop == parts[1]
        cmd_type == parts[2]
        cmd_args == Tail(args)
        add == updown = "upgrade" /\ adddrop = "add"
    IN  IF Len(parts) # 2 THEN Raise("ValueError")
        ELSE IF cmd_type \notin {"table", "column"} THEN Raise("KeyError")
        ELSE IF cmd_type = "table"
        THEN IF Len(cmd_args) # 1 THEN Raise("TypeError")
             ELSE IF add THEN _add_table(cmd_args[1], autogen_context)
             ELSE _drop_table(cmd_args[1], autogen_context)
        ELSE IF Len(cmd_args) # 2 THEN Raise("TypeError")
             ELSE IF add THEN _add_column(cmd_args[1], cmd_args[2], autogen_context)
             ELSE _drop_column(cmd_args[1], cmd_args[2], autogen_context)

_invoke_adddrop_command(updown, args, autogen_context) ==
    LET parts == Split(args[1])
        adddrop == parts[1]
        cmd_type == parts[2]
        cmd_args == Tail(args)
        add == (updown = "upgrade" /\ adddrop = "add")
               \/ (updown = "downgrade" /\ adddrop = "remove")
    IN  IF Len(parts) # 2 THEN Raise("ValueError")
        ELSE IF cmd_type \notin {"table", "column"} THEN Raise("KeyError")
        ELSE IF cmd_type = "table"
        THEN IF Len(cmd_args) # 1 THEN Raise("TypeError")
             ELSE IF add THEN _add_table(cmd_args[1], autogen_context)
             ELSE _drop_table(cmd_args[1], autogen_context)
        ELSE IF Len(cmd_args) # 2 THEN Raise("TypeError")
             ELSE IF add THEN _add_column(cmd_args[1], cmd_args[2], autogen_context)
             ELSE _drop_column(cmd_args[1], cmd_args[2], autogen_context)

_arg_struct ==
    (Tag("modify", "type") :> <<"existing_type", "type_">>)
    @@ (Tag("modify", "nullable") :> <<"existing_nullable", "nullable">>)
    @@ (Tag("modify", "default") :> <<"existing_server_default", "server_default">>)

\* the merge with kw[arg] = diff_kw[arg] in place of kw.setdefault
TakeExistingOverwrites(kw, diff_kw) ==
    LET Take(k, arg) == IF arg \in DOMAIN diff_kw THEN Merge(k, (arg :> diff_kw[arg])) ELSE k
    IN  Take(Take(Take(kw, "existing_type"), "existing_nullable"), "existing_server_default")

\* for arg in (...): if arg in diff_kw: kw.setdefault(arg, diff_kw[arg])
TakeExisting(kw, diff_kw) ==
    LET Take(k, arg) == IF arg \in DOMAIN diff_kw THEN SetDefault(k, arg, diff_kw[arg]) ELSE k
    IN  Take(Take(Take(kw, "existing_type"), "existing_nullable"), "existing_server_default")

\* one pass of the loop over the diffs of a group
ModifyStep(updown, kw, diff) ==
    LET kw1 == TakeExisting(kw, diff[4])
        names == _arg_struct[diff[1]]
        old_kw == names[1]
        new_kw == names[2]
    IN  IF updown = "upgrade"
        THEN Merge(Merge(kw1, (new_kw :> diff[Len(diff)])), (old_kw :> diff[Len(diff) - 1]))
        ELSE Merge(Merge(kw1, (new_kw :> diff[Len(diff) - 1])), (old_kw :> diff[Len(diff)]))

RECURSIVE ModifyLoop(_, _, _)
ModifyLoop(updown, kw, group) ==
    IF group = <<>> THEN kw
    ELSE ModifyLoop(updown, ModifyStep(updown, kw, Head(group).v), Tail(group))

\* the kw dict without the removal of a superseded existing_nullable
ModifyKwKeepsExistingNullable(updown, args) ==
    LET kw == ModifyLoop(updown, <<>>, args)
    IN  IF "server_default" \in DOMAIN kw THEN Pop(kw, "existing_server_default") ELSE kw

\* the kw dict handed to _modify_col
ModifyKw(updown, args) ==
    LET kw == ModifyLoop(updown, <<>>, args)
        kw1 == IF "nullable" \in DOMAIN kw THEN Pop(kw, "existing_nullable") ELSE kw
    IN  IF "server_default" \in DOMAIN kw1 THEN Pop(kw1, "existing_server_default") ELSE kw1

_invoke_modify_command(updown, args, autogen_context) ==
    LET tname == args[1].v[2]
        cname == args[1].v[3]
    IN  _modify_col(tname, cname, autogen_context, ModifyKw(updown, args))

_invoke_command(updown, args, autogen_context) ==
    IF args.py = "tuple"
    THEN _invoke_adddrop_command(updown, args.v, autogen_context)
    ELSE _invoke_modify_command(updown, args.v, autogen_context)

Pass == [op |-> "pass"]

_produce_upgrade_commands(diff_list, autogen_context) ==
    LET buf == [i \in 1..Len(diff_list) |-> _invoke_command("upgrade", diff_list[i], autogen_context)]
    IN  IF buf = <<>> THEN <<Pass>> ELSE buf

_produce_downgrade_commands(diff_list, autogen_context) ==
    LET buf == [i \in 1..Len(diff_list) |-> _invoke_command("downgrade", diff_list[i], autogen_context)]
    IN  IF buf = <<>> THEN <<Pass>> ELSE buf

----------------------------------------------------------------------------
(* the inputs of a run *)

\* (type, nullable, default) of the columns of the structural scenarios
PlainAttrs == <<"Integer", "False", NoDefault>>

TextAttrs == <<"String", "True", <<QUOTE, "a", QUOTE>> >>

UntypedAttrs == <<"NullType", "True", <<"5">> >>

AllAttrs == Types \X NullableFlags \X ServerDefaults

\* a column of the declared schema, and the record the Inspector gives for one
DeclaredColumn(cn, a) == Column(cn, a[1], a[2], a[3])

ObservedColumn(cn, a) == [name |-> cn, type |-> a[1], nullable |-> a[2], default |-> a[3]]

\* every assignment of attributes to the columns of some subset of the names
Layouts(names, attrs) == UNION {[cs -> attrs] : cs \in SUBSET names}

DeclaredTable(tn, layout) ==
    [name |-> tn, c |-> [cn \in DOMAIN layout |-> DeclaredColumn(cn, layout[cn])]]

ObservedTable(layout) == [cn \in DOMAIN layout |-> ObservedColumn(cn, layout[cn])]

\* the comparator predicates the scenarios draw from: one answer for every column
Predicates == {[cn \in ColNames |-> b] : b \in BOOLEAN}

opts == [sqlalchemy_module_prefix |-> "sa.", alembic_module_prefix |-> "op."]

autogen_context ==
    [compare_type |-> compare_type,
     compare_server_default |-> compare_server_default,
     opts |-> opts]

NotRun ==
    /\ diffs = <<>>
    /\ template_args = <<>>
    /\ previous = <<>>
    /\ runs = 0
    /\ call = <<>>

\* any tables on either side, every table with the same single column; the
\* predicates report every column they are asked about as changed
InitTables ==
    \E mt \in SUBSET TableNames, ct \in SUBSET TableNames,
       da \in {PlainAttrs, UntypedAttrs}, oa \in {PlainAttrs, UntypedAttrs} :
        /\ metadata = [tables |-> [t \in mt |->
                          DeclaredTable(t, (ColNamePool[1] :> da))]]
        /\ inspector = [t \in ct |-> ObservedTable((ColNamePool[1] :> oa))]
        /\ compare_type = [cn \in ColNames |-> TRUE]
        /\ compare_server_default = [cn \in ColNames |-> TRUE]

\* one table on both sides, any columns on either side; the two predicates
\* answer alike
InitColumns ==
    \E dl \in Layouts(ColNames, {PlainAttrs, TextAttrs}),
       ol \in Layouts(ColNames, {PlainAttrs, TextAttrs}) :
        /\ metadata = [tables |-> (TableNamePool[2] :> DeclaredTable(TableNamePool[2], dl))]
        /\ inspector = (TableNamePool[2] :> ObservedTable(ol))
        /\ compare_type \in Predicates
        /\ compare_server_default = compare_type

\* one table with one column on both sides, any attributes on either side
InitAttributes ==
    \E da \in AllAttrs, oa \in AllAttrs :
        /\ metadata = [tables |-> (TableNamePool[2] :>
                          DeclaredTable(TableNamePool[2], (ColNamePool[1] :> da)))]
        /\ inspector = (TableNamePool[2] :> ObservedTable((ColNamePool[1] :> oa)))
        /\ compare_type \in Predicates
        /\ compare_server_default \in Predicates

\* the environment script provides no MetaData
InitNoMetaData ==
    /\ metadata = NoMetaData
    /\ inspector = <<>>
    /\ compare_type \in Predicates
    /\ compare_server_default \in Predicates

Init ==
    /\ InitTables \/ InitColumns \/ InitAttributes \/ InitNoMetaData
    /\ NotRun

----------------------------------------------------------------------------
(* top level *)

\* produce_migration_diffs, the set iterations of the run taking the given
\* orders.  The framing comment lines of _indent and the sorted imports are
\* left out of template_args.
ProduceMigrationDiffs(table_order, column_order) ==
    /\ ~MetaDataIsNone(metadata)
    /\ runs < MaxRuns
    /\ LET net == _produce_net_changes(inspector, metadata, autogen_context,
                                       table_order, column_order)
       IN  /\ diffs' = net
           /\ template_args' =
                [upgrade |-> _produce_upgrade_commands(net, autogen_context),
                 downgrade |-> _produce_downgrade_commands(net, autogen_context)]
    /\ previous' = IF runs = 0 THEN <<>>
                   ELSE [diffs |-> diffs, template_args |-> template_args]
    /\ runs' = runs + 1
    /\ UNCHANGED <<metadata, inspector, compare_type, compare_server_default, call>>

\* produce_migration_diffs when target_metadata is None
ProduceMigrationDiffsNoMetaData ==
    /\ MetaDataIsNone(metadata)
    /\ template_args = <<>>
    /\ template_args' = Raise("CommandError")
    /\ UNCHANGED <<metadata, inspector, compare_type, compare_server_default,
                   diffs, previous, runs, call>>

\* the names the unsorted set loops of a run iterate over
IteratedTables ==
    IF MetaDataIsNone(metadata) THEN {}
    ELSE LET conn_table_names == (DOMAIN inspector) \ {"alembic_version"}
             metadata_table_names == DOMAIN metadata.tables
         IN  (metadata_table_names \ conn_table_names)
             \cup (conn_table_names \ metadata_table_names)

IteratedColumns ==
    IF MetaDataIsNone(metadata) THEN {}
    ELSE UNION {DOMAIN inspector[t] : t \in DOMAIN inspector}
         \cup UNION {DOMAIN metadata.tables[t].c : t \in DOMAIN metadata.tables}

Next ==
    \/ \E table_order \in Perms(IteratedTables), column_order \in Perms(IteratedColumns) :
          ProduceMigrationDiffs(table_order, column_order)
    \/ ProduceMigrationDiffsNoMetaData

Spec == Init /\ [][Next]_vars

----------------------------------------------------------------------------
(* the renderer called on its own, with any tuple diff *)

KnownTags == {Tag(verb, kind) : verb \in {"add", "remove"}, kind \in {"table", "column"}}

DispatchTags ==
    {Tag(verb, kind) : verb \in {"add", "remove", "rename"},
                       kind \in {"table", "column", "index"}}
    \cup {<<"add">>, <<"add", "_", "foreign", "_", "key">>}

DispatchTables ==
    {DeclaredTable(tn, (ColNamePool[1] :> a)) : tn \in TableNames,
                                                 a \in {PlainAttrs, TextAttrs}}

DispatchColumns ==
    {DeclaredColumn(cn, a) : cn \in ColNames, a \in {PlainAttrs, TextAttrs, UntypedAttrs}}

\* ("<tag>", table) and ("<tag>", tname, column)
TableDiffs == {PyTuple(<<tag, t>>) : tag \in DispatchTags, t \in DispatchTables}

ColumnDiffs ==
    {PyTuple(<<tag, tn, col>>) : tag \in DispatchTags, tn \in TableNames, col \in DispatchColumns}

InitDispatch ==
    /\ metadata = [tables |-> <<>>]
    /\ inspector = <<>>
    /\ compare_type \in Predicates
    /\ compare_server_default \in Predicates
    /\ NotRun

Called == "result" \in DOMAIN call

InvokeCommand(updown, args) ==
    /\ ~Called
    /\ call' = [updown |-> updown, args |-> args,
                result |-> _invoke_command(updown, args, autogen_context)]
    /\ UNCHANGED <<metadata, inspector, compare_type, compare_server_default,
                   diffs, template_args, previous, runs>>

NextDispatch ==
    \/ \E updown \in {"upgrade", "downgrade"}, args \in TableDiffs : InvokeCommand(updown, args)
    \/ \E updown \in {"upgrade", "downgrade"}, args \in ColumnDiffs : InvokeCommand(updown, args)

SpecDispatch == InitDispatch /\ [][NextDispatch]_vars

----------------------------------------------------------------------------
(* Properties of the dispatch *)

CallTag == call.args.v[1]

\* a diff of one of the four structural kinds, with the payload of its kind
WellFormedCall ==
    /\ Called
    /\ CallTag \in KnownTags
    /\ Len(call.args.v) = (IF CallTag[3] = "table" THEN 2 ELSE 3)

\* the four-way table of section 4.5, kind by kind
RendererFor(updown, verb, kind) ==
    IF (updown = "upgrade" /\ verb = "add") \/ (updown = "downgrade" /\ verb = "remove")
    THEN (IF kind = "table" THEN "create_table" ELSE "add_column")
    ELSE (IF kind = "table" THEN "drop_table" ELSE "drop_column")

\* C1: for each of add_table, remove_table, add_column, remove_column and each
\* direction, _invoke_adddrop_command calls the renderer the four-way rule
\* names, of the diff's own kind, on the diff's own table or column.
C1_FourWayRule ==
    WellFormedCall =>
        /\ call.result.op = RendererFor(call.updown, CallTag[1], CallTag[3])
        /\ CallTag[3] = "table" =>
              call.args.v[2].name = (IF call.result.op = "create_table"
                                     THEN call.result.tablename ELSE call.result.tname)
        /\ CallTag[3] = "column" => call.args.v[2] = call.result.tname

\* C1 witness: a remove_column diff rendered for downgrade as add_column
C1_Witness ==
    /\ WellFormedCall
    /\ CallTag = Tag("remove", "column")
    /\ call.updown = "downgrade"
    /\ call.result.op = "add_column"

\* C10: a tuple diff whose tag is not one of the four known ones makes the
\* renderer raise, in either direction, and no command is rendered for it.
C10_UnknownTagRaises ==
    (Called /\ CallTag \notin KnownTags) => call.result.op = "raise"

----------------------------------------------------------------------------
(* Properties of the comparison *)

Ran == runs > 0

Declared == DOMAIN metadata.tables

InDatabase == DOMAIN inspector

\* the diffs of the list that are ("<verb>_table", table) for the table named n
TableDiffsFor(verb, n) ==
    {i \in DOMAIN diffs :
        /\ diffs[i].py = "tuple"
        /\ diffs[i].v[1] = Tag(verb, "table")
        /\ diffs[i].v[2].name = n}

\* C3 as stated: one add_table for each declared table the database lacks, one
\* remove_table for each table of the database that is not declared, and no
\* table-level diff for a table that is declared and in the database.
C3_TableDiffsComplete ==
    Ran => \A n \in TableNames :
        /\ (n \in Declared \ InDatabase) => Cardinality(TableDiffsFor("add", n)) = 1
        /\ (n \in InDatabase \ Declared) => Cardinality(TableDiffsFor("remove", n)) = 1
        /\ (n \in Declared \cap InDatabase) =>
              TableDiffsFor("add", n) \cup TableDiffsFor("remove", n) = {}

\* the names the comparison takes as observed
ObservedNames == InDatabase \ {"alembic_version"}

\* C3 amended: the same with "observed" read as the database's tables other
\* than 'alembic_version'; every name has exactly the table-level diffs that
\* this gives it and no other.
C3_TableDiffsCompleteButVersionTable ==
    Ran => \A n \in TableNames :
        /\ Cardinality(TableDiffsFor("add", n)) =
              (IF n \in Declared \ ObservedNames THEN 1 ELSE 0)
        /\ Cardinality(TableDiffsFor("remove", n)) =
              (IF n \in ObservedNames \ Declared THEN 1 ELSE 0)

\* C3 witness: a run over a database that holds 'alembic_version' and another
\* undeclared table, with a declared table missing from it
C3_Witness ==
    /\ Ran
    /\ "alembic_version" \in InDatabase
    /\ \E n \in TableNames : TableDiffsFor("add", n) # {}
    /\ \E n \in TableNames : TableDiffsFor("remove", n) # {}

----------------------------------------------------------------------------
(* Properties of the column comparison and of the composite groups *)

ExistingTables == Declared \cap ObservedNames

BothColumns(t) == DOMAIN inspector[t] \cap DOMAIN metadata.tables[t].c

ObservedCol(t, c) == inspector[t][c]

DeclaredCol(t, c) == metadata.tables[t].c[c]

IsGroup(i) == diffs[i].py = "list"

GroupTable(i) == diffs[i].v[1].v[2]

GroupColumn(i) == diffs[i].v[1].v[3]

\* the attributes ("type", "nullable", "default") a group modifies, in its order
GroupAttrs(i) == [j \in DOMAIN diffs[i].v |-> diffs[i].v[j].v[1][3]]

Modifies(i, attr) == \E j \in DOMAIN diffs[i].v : GroupAttrs(i)[j] = attr

HasModify(t, c, attr) ==
    \E i \in DOMAIN diffs :
        IsGroup(i) /\ GroupTable(i) = t /\ GroupColumn(i) = c /\ Modifies(i, attr)

Up(i) == template_args.upgrade[i]

Down(i) == template_args.downgrade[i]

Untyped(t, c) == ObservedCol(t, c).type = "NullType" \/ DeclaredCol(t, c).type = "NullType"

NullableDiffers(t, c) == ObservedCol(t, c).nullable # DeclaredCol(t, c).nullable

DefaultDiffers(t, c) ==
    /\ ~(ObservedCol(t, c).default = NoDefault /\ DeclaredCol(t, c).server_default = NoDefault)
    /\ compare_server_default[c]

\* C5: a column whose observed or declared type has NullType affinity gets no
\* modify_type diff, whatever compare_type answers; its nullable and default
\* comparisons are made all the same, and so are the comparisons of every
\* other column and the table-level comparison of the run.
C5_NoModifyTypeWhenUntyped ==
    Ran => \A t \in ExistingTables : \A c \in BothColumns(t) :
        Untyped(t, c) =>
            /\ ~HasModify(t, c, "type")
            /\ HasModify(t, c, "nullable") <=> NullableDiffers(t, c)
            /\ HasModify(t, c, "default") <=> DefaultDiffers(t, c)
            /\ \A t2 \in ExistingTables : \A c2 \in BothColumns(t2) :
                  /\ ~Untyped(t2, c2) => (HasModify(t2, c2, "type") <=> compare_type[c2])
                  /\ HasModify(t2, c2, "nullable") <=> NullableDiffers(t2, c2)
                  /\ HasModify(t2, c2, "default") <=> DefaultDiffers(t2, c2)
            /\ \A n \in Declared \ ObservedNames : TableDiffsFor("add", n) # {}
            /\ \A n \in ObservedNames \ Declared : TableDiffsFor("remove", n) # {}

\* C5 witness: a run in which a column of unknown declared type, which
\* compare_type would report as changed, got its nullable change recorded
C5_Witness ==
    /\ Ran
    /\ \E t \in ExistingTables : \E c \in BothColumns(t) :
          /\ DeclaredCol(t, c).type = "NullType"
          /\ ObservedCol(t, c).type = "Integer"
          /\ compare_type[c]
          /\ HasModify(t, c, "nullable")

\* the type inside a rendered type expression
TypeOf(rendered) == rendered[2]

\* C9: every alter_column rendered from a group carries an existing_type that
\* is not None and is the column's type before the command: the observed type
\* on upgrade; on downgrade the declared type if the group modifies the type
\* and the observed type if it does not.
C9_ExistingTypeIsCurrentType ==
    Ran => \A i \in DOMAIN diffs : IsGroup(i) =>
        LET t == GroupTable(i)
            c == GroupColumn(i)
        IN  /\ "existing_type" \in DOMAIN Up(i).fields
            /\ "existing_type" \in DOMAIN Down(i).fields
            /\ TypeOf(Up(i).fields["existing_type"]) # None
            /\ TypeOf(Down(i).fields["existing_type"]) # None
            /\ TypeOf(Up(i).fields["existing_type"]) = ObservedCol(t, c).type
            /\ TypeOf(Down(i).fields["existing_type"]) =
                  (IF Modifies(i, "type") THEN DeclaredCol(t, c).type
                   ELSE ObservedCol(t, c).type)

\* C9 witness: a rendered group that modifies the type, between two different
\* types, together with the nullable flag
C9_Witness ==
    /\ Ran
    /\ \E i \in DOMAIN diffs :
          /\ IsGroup(i)
          /\ Modifies(i, "type")
          /\ Modifies(i, "nullable")
          /\ ObservedCol(GroupTable(i), GroupColumn(i)).type
                # DeclaredCol(GroupTable(i), GroupColumn(i)).type
          /\ Down(i).op = "alter_column"

----------------------------------------------------------------------------
(* Properties of the rendered alter_column calls *)

\* the group of a column whose type and nullable flag are reported as changed
\* and whose default is not
TypeAndNullableGroup(i) == IsGroup(i) /\ GroupAttrs(i) = <<"type", "nullable">>

\* such a group where the two types differ, the two nullable flags are known
\* and the two defaults are the same
PlainTypeAndNullableChange(i) ==
    LET obs == ObservedCol(GroupTable(i), GroupColumn(i))
        decl == DeclaredCol(GroupTable(i), GroupColumn(i))
    IN  /\ TypeAndNullableGroup(i)
        /\ obs.type # decl.type
        /\ obs.nullable # None
        /\ decl.nullable # None
        /\ StripQuotes(obs.default) = StripQuotes(decl.server_default)

\* C4 as stated, taken on the plain changes: the alter_column of such a
\* group, in either direction, has type_, nullable and an existing_type that
\* is not None, and has none of existing_nullable, server_default,
\* existing_server_default.
C4_TypeAndNullableFields ==
    Ran => \A i \in DOMAIN diffs : PlainTypeAndNullableChange(i) =>
        \A cmd \in {Up(i), Down(i)} :
            /\ {"type_", "nullable", "existing_type"} \subseteq DOMAIN cmd.fields
            /\ TypeOf(cmd.fields["existing_type"]) # None
            /\ DOMAIN cmd.fields
                 \cap {"existing_nullable", "server_default", "existing_server_default"} = {}

\* the fields C4 amended gives the call that sets the nullable flag to
\* `nullable`, for a column whose observed default is `default`
TypeAndNullableFieldNames(nullable, default) ==
    {"existing_type", "type_"}
    \cup (IF nullable # None THEN {"nullable"} ELSE {})
    \cup (IF default # NoDefault THEN {"existing_server_default"} ELSE {})

\* C4 amended: the alter_column of such a group, in either direction, has
\* type_ and an existing_type that is not None, has nullable unless the flag
\* it would set is None, has neither existing_nullable nor server_default, and
\* has existing_server_default, the rendered observed default, exactly when
\* the observed default is not None.
C4_TypeAndNullableFieldsWithExistingDefault ==
    Ran => \A i \in DOMAIN diffs : TypeAndNullableGroup(i) =>
        LET obs == ObservedCol(GroupTable(i), GroupColumn(i))
            decl == DeclaredCol(GroupTable(i), GroupColumn(i))
        IN  /\ DOMAIN Up(i).fields = TypeAndNullableFieldNames(decl.nullable, obs.default)
            /\ DOMAIN Down(i).fields = TypeAndNullableFieldNames(obs.nullable, obs.default)
            /\ TypeOf(Up(i).fields["existing_type"]) # None
            /\ TypeOf(Down(i).fields["existing_type"]) # None
            /\ obs.default # NoDefault =>
                  /\ StripQuotes(Up(i).fields["existing_server_default"])
                        = StripQuotes(obs.default)
                  /\ StripQuotes(Down(i).fields["existing_server_default"])
                        = StripQuotes(obs.default)

\* C4 witness: a plain change rendered for a column whose default is not None
C4_Witness ==
    /\ Ran
    /\ \E i \in DOMAIN diffs :
          /\ PlainTypeAndNullableChange(i)
          /\ ObservedCol(GroupTable(i), GroupColumn(i)).default # NoDefault
          /\ "existing_server_default" \in DOMAIN Up(i).fields

\* the field that carries the new value of an attribute, and the value as written
NewField(attr) ==
    CASE attr = "type" -> "type_"
      [] attr = "nullable" -> "nullable"
      [] attr = "default" -> "server_default"

Written(attr, prefix, value) ==
    CASE attr = "type" -> <<prefix, value>>
      [] attr = "nullable" -> value
      [] attr = "default" ->
            IF value = NoDefault THEN NoDefault
            ELSE <<QUOTE>> \o StripQuotes(value) \o <<QUOTE>>

ObservedValue(t, c, attr) ==
    CASE attr = "type" -> ObservedCol(t, c).type
      [] attr = "nullable" -> ObservedCol(t, c).nullable
      [] attr = "default" -> ObservedCol(t, c).default

DeclaredValue(t, c, attr) ==
    CASE attr = "type" -> DeclaredCol(t, c).type
      [] attr = "nullable" -> DeclaredCol(t, c).nullable
      [] attr = "default" -> DeclaredCol(t, c).server_default

\* C8: for every group and every Modify diff in it, the alter_column has the
\* attribute's new-value field, holding the declared value on upgrade and the
\* observed value on downgrade; so every alter_column has a changed attribute.
C8_NewValueFields ==
    Ran => \A i \in DOMAIN diffs : IsGroup(i) =>
        LET t == GroupTable(i)
            c == GroupColumn(i)
        IN  /\ \A j \in DOMAIN GroupAttrs(i) :
                  LET attr == GroupAttrs(i)[j]
                  IN  /\ NewField(attr) \in DOMAIN Up(i).fields
                      /\ NewField(attr) \in DOMAIN Down(i).fields
                      /\ Up(i).fields[NewField(attr)]
                            = Written(attr, opts.sqlalchemy_module_prefix, DeclaredValue(t, c, attr))
                      /\ Down(i).fields[NewField(attr)]
                            = Written(attr, opts.sqlalchemy_module_prefix, ObservedValue(t, c, attr))
            /\ DOMAIN Up(i).fields \cap {"type_", "nullable", "server_default"} # {}
            /\ DOMAIN Down(i).fields \cap {"type_", "nullable", "server_default"} # {}

----------------------------------------------------------------------------
(* The commands read as operations on a schema (section 8, Symmetry).  A  *)
(* schema has the shape of what the Inspector reports.                     *)

\* the column a rendered Column(...) creates: nullable unless said otherwise
CreatedColumn(rendered) ==
    [name |-> rendered.name,
     type |-> TypeOf(rendered.type),
     nullable |-> IF "nullable" \in DOMAIN rendered.kw THEN rendered.kw["nullable"] ELSE "True",
     default |-> IF "server_default" \in DOMAIN rendered.kw
                 THEN rendered.kw["server_default"] ELSE NoDefault]

\* alter_column changes what it names and leaves the rest
AlteredColumn(col, fields) ==
    [name |-> col.name,
     type |-> IF "type_" \in DOMAIN fields THEN TypeOf(fields["type_"]) ELSE col.type,
     nullable |-> IF "nullable" \in DOMAIN fields THEN fields["nullable"] ELSE col.nullable,
     default |-> IF "server_default" \in DOMAIN fields
                 THEN fields["server_default"] ELSE col.default]

ApplyCommand(schema, cmd) ==
    CASE cmd.op = "create_table" ->
            Merge(schema, (cmd.tablename :> [cn \in DOMAIN cmd.args |-> CreatedColumn(cmd.args[cn])]))
      [] cmd.op = "drop_table" -> Pop(schema, cmd.tname)
      [] cmd.op = "add_column" ->
            Merge(schema, (cmd.tname :>
                Merge(schema[cmd.tname], (cmd.column.name :> CreatedColumn(cmd.column)))))
      [] cmd.op = "drop_column" ->
            Merge(schema, (cmd.tname :> Pop(schema[cmd.tname], cmd.cname)))
      [] cmd.op = "alter_column" ->
            Merge(schema, (cmd.tname :>
                Merge(schema[cmd.tname],
                      (cmd.cname :> AlteredColumn(schema[cmd.tname][cmd.cname], cmd.fields)))))
      [] cmd.op = "pass" -> schema

\* the same tables, columns, types, nullable flags and defaults, a default
\* being taken in its canonical form (section 6), without surrounding quotes
SameSchema(a, b) ==
    /\ DOMAIN a = DOMAIN b
    /\ \A t \in DOMAIN a :
          /\ DOMAIN a[t] = DOMAIN b[t]
          /\ \A c \in DOMAIN a[t] :
                /\ a[t][c].type = b[t][c].type
                /\ a[t][c].nullable = b[t][c].nullable
                /\ StripQuotes(a[t][c].default) = StripQuotes(b[t][c].default)

\* the schema the diffs are computed from: the tables taken as observed
ObservedSchema == [t \in ObservedNames |-> inspector[t]]

\* C2: for every diff of the list, the command rendered for upgrade followed
\* by the command rendered for downgrade, applied to the schema the diff was
\* computed from, gives that schema back.
C2_UpgradeThenDowngradeIsNoOp ==
    Ran => \A i \in DOMAIN diffs :
        SameSchema(ApplyCommand(ApplyCommand(ObservedSchema, Up(i)), Down(i)),
                   ObservedSchema)

----------------------------------------------------------------------------
(* Properties of the order of the diff list *)

\* C6: a second run over the same declared schema, database and predicates
\* produces the diff list of the first, in the same order, and the same
\* upgrade and downgrade command sequences.
C6_RunsAgree ==
    runs >= 2 => /\ previous.diffs = diffs
                /\ previous.template_args = template_args

IsTableDiff(i) == diffs[i].py = "tuple" /\ Split(diffs[i].v[1])[2] = "table"

\* the table a diff is about
DiffTable(i) ==
    IF IsGroup(i) THEN GroupTable(i)
    ELSE IF IsTableDiff(i) THEN diffs[i].v[2].name
    ELSE diffs[i].v[2]

Position(n) == CHOOSE k \in DOMAIN TableNamePool : TableNamePool[k] = n

\* C7: the table-level diffs come first, the add_table diffs in table-name
\* order and the remove_table diffs in table-name order; the column-level
\* diffs follow, table after table in ascending name order, and within one
\* table the add_column and remove_column diffs precede the groups.
C7_DiffListOrder ==
    Ran => \A i, j \in DOMAIN diffs : i < j =>
        /\ IsTableDiff(j) => IsTableDiff(i)
        /\ (IsTableDiff(i) /\ IsTableDiff(j) /\ diffs[i].v[1] = diffs[j].v[1]) =>
              Position(DiffTable(i)) < Position(DiffTable(j))
        /\ (~IsTableDiff(i) /\ ~IsTableDiff(j)) =>
              /\ Position(DiffTable(i)) <= Position(DiffTable(j))
              /\ (DiffTable(i) = DiffTable(j) /\ IsGroup(i)) => IsGroup(j)

====
